---- MODULE Spec2Model ----
(***************************************************************************)
(* Model of src/neo4j/bench.py: the command line of main, the batch        *)
(* coordinator GAP.run_all, the worker processes GAP.run, and the          *)
(* percentile estimator used by print_bench.                               *)
(*                                                                         *)
(* Python lists and multiprocessing Arrays are functions on 0..n-1, as in  *)
(* the source.  Durations are natural numbers (ticks); the arithmetic of   *)
(* percentile is exact rational arithmetic: a fraction nth is the pair     *)
(* num/den and a result is the pair n/d.                                   *)
(***************************************************************************)
EXTENDS Integers, Sequences, FiniteSets, TLC

\* ------------------------------------------------------------------ bounds
\* largest number of command-line arguments after the script name
MaxArgs == 2
\* the default run_count of main (10000 at line 187), scaled down
DefaultRunCount == 1
\* the 16 of log(16, 2) in the default parallels of main (line 189), scaled
\* down: the default list is 1, 2, 4, ... up to the first power of two >= it
TopParallel == 1
\* inputs of the percentile specification
MaxLen == 4
MaxValue == 3
NthDen == 6
\* inputs of the run_all specification
MaxProcs == 2
MaxRuns == 2

\* ------------------------------------------------------- python list helpers
\* a value not set yet (None) is the empty tuple, a set value v the tuple <<v>>
None == <<>>

Some(v) == <<v>>

PyLen(l) == Cardinality(DOMAIN l)

EmptyList == [i \in {} |-> 0]

\* l[i] of a python list: negative indices count from the end, anything
\* outside -len..len-1 raises IndexError
PyGet(l, i) ==
    IF i >= 0 /\ i < PyLen(l) THEN [raised |-> FALSE, value |-> l[i]]
    ELSE IF i < 0 /\ i >= 0 - PyLen(l) THEN [raised |-> FALSE, value |-> l[PyLen(l) + i]]
    ELSE [raised |-> TRUE, value |-> 0]

\* a + b of two lists
PyConcat(a, b) ==
    [i \in 0..(PyLen(a) + PyLen(b) - 1) |->
        IF i < PyLen(a) THEN a[i] ELSE b[i - PyLen(a)]]

\* chain(*arrays): the arrays one after another, in list order
RECURSIVE ChainUpTo(_, _)
ChainUpTo(arrays, n) ==
    IF n = 0 THEN EmptyList
    ELSE PyConcat(ChainUpTo(arrays, n - 1), arrays[n - 1])

chain(arrays) == ChainUpTo(arrays, PyLen(arrays))

\* sorted(l): insertion of l[n-1] into the sorted prefix
RECURSIVE SortedUpTo(_, _)
SortedUpTo(l, n) ==
    IF n = 0 THEN EmptyList
    ELSE LET s == SortedUpTo(l, n - 1)
             x == l[n - 1]
             k == Cardinality({i \in DOMAIN s : s[i] <= x})
         IN  [i \in 0..(n - 1) |->
                IF i < k THEN s[i] ELSE IF i = k THEN x ELSE s[i - 1]]

sorted(l) == SortedUpTo(l, PyLen(l))

IsSorted(l) == \A i, j \in DOMAIN l : i <= j => l[i] <= l[j]

\* ------------------------------------------------------------- percentile
floor(a, b) == a \div b

ceil(a, b) == 0 - ((0 - a) \div b)

\* percentile(values, nth) with nth = num/den; the result is n/d
percentile_LenIndex(values, num, den) ==
    LET index == PyLen(values) * num
        lo == floor(index, den)
        hi == ceil(index, den)
    IN  IF lo = hi
        THEN LET v == PyGet(values, lo)
             IN  [raised |-> v.raised, n |-> v.value * den, d |-> den]
        ELSE LET a == PyGet(values, lo)
                 b == PyGet(values, hi)
             IN  [raised |-> a.raised \/ b.raised,
                  n |-> a.value * (hi * den - index) + b.value * (index - lo * den),
                  d |-> den]

percentile(values, num, den) ==
    LET index == (PyLen(values) - 1) * num      \* index * den
        lo == floor(index, den)
        hi == ceil(index, den)
    IN  IF lo = hi
        THEN LET v == PyGet(values, lo)
             IN  [raised |-> v.raised, n |-> v.value * den, d |-> den]
        ELSE LET a == PyGet(values, lo)
                 b == PyGet(values, hi)
             IN  [raised |-> a.raised \/ b.raised,
                  n |-> a.value * (hi * den - index) + b.value * (index - lo * den),
                  d |-> den]

\* ------------------------------------------------------------------ state
VARIABLES
    argv,           \* sys.argv[1:] as given
    args,           \* main: the arguments not yet popped
    run_count,      \* main: run_count
    statements,     \* main: statements
    parallels,      \* main: parallels
    mpc,            \* main: position ("parse", "loop", "exited"; "direct" when run_all is called on its own)
    exit,           \* process exit status, None while main runs
    out,            \* what main has printed / what the interpreter reported, in order
    si, pj,         \* main: positions of the two for loops
    calls,          \* history: every GAP.run_all call: statement, its position, process_count
    cpc,            \* run_all: position
    process_count,  \* run_all: process_count
    rcount,         \* run_all: run_count
    statement,      \* run_all: statement
    k,              \* run_all: position of the start / join loop
    overall, network, wait,   \* run_all: the lists of shared Arrays
    procs,          \* run_all: processes (invoked: history, the run(statement) calls made)
    summary,        \* run_all: the printed throughput line
    agg,            \* run_all: the three sequences passed to print_bench
    table,          \* print_bench: the printed rows, or that percentile raised IndexError
    pctCalls,       \* history: the length of every sequence passed to percentile by print_bench
    wcount,         \* history: number of writes to each slot, [dim][region][slot]
    writers,        \* history: every write, [proc, dim, region, slot]
    pvalues, pnth, presult    \* the percentile specification: input and result

mainVars == <<argv, args, run_count, statements, parallels, mpc, exit, out, si, pj, calls>>
batchVars == <<cpc, process_count, rcount, statement, k, overall, network, wait, procs,
               summary, agg, table, pctCalls, wcount, writers>>
pctVars == <<pvalues, pnth, presult>>
vars == <<mainVars, batchVars, pctVars>>

Dims == {"overall", "network", "wait"}

\* ------------------------------------------------------------ the session
\* the Latency Samples a session may report for one request (durations in
\* ticks; wait lies inside network, network inside overall)
LatencySamples ==
    {[overall |-> 3, network |-> 2, wait |-> 1],
     [overall |-> 5, network |-> 4, wait |-> 2]}

\* session.run(statement) that returns: session.bench gains one Latency Sample
SessionRun(bench, latency) == PyConcat(bench, [i \in {0} |-> latency])

\* ------------------------------------------------------------- GAP.run_all
\* Array("d", n): n doubles, all 0
Array(n) == [j \in 0..(n - 1) |-> 0]

\* the Arrays handed to process i: overall[i], network[i], wait[i]
RegionOf_Shared(i) == 0
RegionOf(i) == i

\* cls(run_count, statement, overall[i], network[i], wait[i])
NewProcess(i) ==
    [pc |-> "created", i |-> 0, w |-> 0, bench |-> EmptyList, invoked |-> 0,
     overall |-> RegionOf(i), network |-> RegionOf(i), wait |-> RegionOf(i),
     exitcode |-> None]

Terminated(p) == procs[p].pc \in {"done", "failed"}

NoSummary == [printed |-> FALSE, runs |-> 0, clients |-> 0, requests |-> 0]

NoAggregate == [passed |-> FALSE, overall |-> EmptyList, network |-> EmptyList,
                wait |-> EmptyList]

NoTable == [state |-> "none", rows |-> <<>>]

\* lines 119-128: the header, the Arrays, the processes, t0
Allocate ==
    /\ cpc = "call"
    /\ overall' = [i \in 0..(process_count - 1) |-> Array(rcount)]
    /\ network' = [i \in 0..(process_count - 1) |-> Array(rcount)]
    /\ wait' = [i \in 0..(process_count - 1) |-> Array(rcount)]
    /\ procs' = [i \in 0..(process_count - 1) |-> NewProcess(i)]
    /\ wcount' = [d \in Dims |-> [i \in 0..(process_count - 1) |-> Array(rcount)]]
    /\ writers' = {}
    /\ summary' = NoSummary
    /\ agg' = NoAggregate
    /\ table' = NoTable
    /\ k' = 0
    /\ cpc' = IF process_count > 0 THEN "start" ELSE "joined"
    /\ UNCHANGED <<process_count, rcount, statement, pctCalls, mainVars, pctVars>>

\* lines 129-130: process.start() for the next process
StartProcess ==
    /\ cpc = "start"
    /\ procs' = [procs EXCEPT ![k].pc = "running"]
    /\ k' = IF k + 1 < process_count THEN k + 1 ELSE 0
    /\ cpc' = IF k + 1 < process_count THEN "start" ELSE "join"
    /\ UNCHANGED <<process_count, rcount, statement, overall, network, wait, summary,
                   agg, table, pctCalls, wcount, writers, mainVars, pctVars>>

\* lines 131-132: process.join() returns once that process has terminated,
\* whatever its exit code
JoinProcess_NoWait ==
    /\ cpc = "join"
    /\ k' = IF k + 1 < process_count THEN k + 1 ELSE 0
    /\ cpc' = IF k + 1 < process_count THEN "join" ELSE "joined"
    /\ UNCHANGED <<process_count, rcount, statement, overall, network, wait, procs,
                   summary, agg, table, pctCalls, wcount, writers, mainVars, pctVars>>

JoinProcess ==
    /\ cpc = "join"
    /\ Terminated(k)
    /\ k' = IF k + 1 < process_count THEN k + 1 ELSE 0
    /\ cpc' = IF k + 1 < process_count THEN "join" ELSE "joined"
    /\ UNCHANGED <<process_count, rcount, statement, overall, network, wait, procs,
                   summary, agg, table, pctCalls, wcount, writers, mainVars, pctVars>>

\* lines 133-140: t, process_run_count, tx_per_second and the three summary lines
Summarize ==
    /\ cpc = "joined"
    /\ summary' = [printed |-> TRUE, runs |-> rcount, clients |-> process_count,
                   requests |-> process_count * rcount]
    /\ cpc' = "summarized"
    /\ UNCHANGED <<process_count, rcount, statement, k, overall, network, wait, procs,
                   agg, table, pctCalls, wcount, writers, mainVars, pctVars>>

\* -------------------------------------------------------------- print_bench
\* line 81: the percentiles of the table, p / 100 as num/den
PercentileTable ==
    << <<0, 100>>, <<10, 100>>, <<20, 100>>, <<30, 100>>, <<40, 100>>, <<50, 100>>,
       <<60, 100>>, <<70, 100>>, <<80, 100>>, <<90, 100>>, <<95, 100>>, <<98, 100>>,
       <<99, 100>>, <<995, 1000>>, <<999, 1000>>, <<100, 100>> >>

\* lines 82-84: the percentile calls of print_bench, in the order they are made
PercentileCalls(o, n, w) ==
    [c \in 1..(3 * Len(PercentileTable)) |->
        LET row == ((c - 1) \div 3) + 1
            col == (c - 1) % 3
        IN  [values |-> IF col = 0 THEN o ELSE IF col = 1 THEN n ELSE w,
             num |-> PercentileTable[row][1],
             den |-> PercentileTable[row][2]]]

\* print_bench(overall_latencies, network_latencies, wait_latencies): the calls
\* made until one raises, and the rows printed ("IndexError" if one raised)
print_bench(o, n, w) ==
    LET cs == PercentileCalls(o, n, w)
        res == [c \in DOMAIN cs |-> percentile(cs[c].values, cs[c].num, cs[c].den)]
        bad == {c \in DOMAIN cs : res[c].raised}
        last == IF bad = {} THEN Len(cs) ELSE CHOOSE c \in bad : \A b \in bad : c <= b
    IN  [made |-> {PyLen(cs[c].values) : c \in 1..last},
         raised |-> bad # {},
         rows |-> IF bad = {} THEN res ELSE <<>>]

\* line 141: flatten, sort, print_bench; an exception of percentile leaves
\* run_all and, with no handler in main, ends the process with status 1
PrintBench ==
    /\ cpc = "summarized"
    /\ LET o == sorted(chain(overall))
           n == sorted(chain(network))
           w == sorted(chain(wait))
           pb == print_bench(o, n, w)
       IN  /\ agg' = [passed |-> TRUE, overall |-> o, network |-> n, wait |-> w]
           /\ pctCalls' = pctCalls \cup pb.made
           /\ table' = [state |-> IF pb.raised THEN "IndexError" ELSE "printed",
                         rows |-> pb.rows]
           /\ cpc' = IF pb.raised THEN "raised" ELSE "printed"
           /\ IF pb.raised /\ mpc = "loop"
              THEN /\ mpc' = "exited"
                   /\ exit' = Some(1)
                   /\ out' = Append(out, "Traceback: IndexError in percentile")
              ELSE UNCHANGED <<mpc, exit, out>>
    /\ UNCHANGED <<process_count, rcount, statement, k, overall, network, wait, procs,
                   summary, wcount, writers, argv, args, run_count, statements,
                   parallels, si, pj, calls, pctVars>>

\* line 142: the closing blank line; run_all returns
Return ==
    /\ cpc = "printed"
    /\ cpc' = "returned"
    /\ UNCHANGED <<process_count, rcount, statement, k, overall, network, wait, procs,
                   summary, agg, table, pctCalls, wcount, writers, mainVars, pctVars>>

\* ------------------------------------------------------------------ GAP.run
\* lines 159-160: one run(statement) of the first loop; it returns, and the
\* session has one more Latency Sample, or it raises, and the exception ends
\* the process with exit code 1
WorkerInvoke_RecordEach(p) ==
    /\ procs[p].pc = "running"
    /\ procs[p].i < rcount
    /\ \/ \E latency \in LatencySamples :
            /\ procs' = [procs EXCEPT ![p].bench = SessionRun(@, latency), ![p].i = @ + 1,
                                     ![p].invoked = @ + 1]
            /\ overall' = [overall EXCEPT ![procs[p].overall][procs[p].i] = latency.overall]
            /\ network' = [network EXCEPT ![procs[p].network][procs[p].i] = latency.network]
            /\ wait' = [wait EXCEPT ![procs[p].wait][procs[p].i] = latency.wait]
       \/ /\ procs' = [procs EXCEPT ![p].pc = "failed", ![p].exitcode = Some(1),
                                    ![p].invoked = @ + 1]
          /\ UNCHANGED <<overall, network, wait>>
    /\ UNCHANGED <<cpc, process_count, rcount, statement, k,
                   summary, agg, table, pctCalls, wcount, writers, mainVars, pctVars>>

WorkerInvoke(p) ==
    /\ procs[p].pc = "running"
    /\ procs[p].i < rcount
    /\ \/ \E latency \in LatencySamples :
            procs' = [procs EXCEPT ![p].bench = SessionRun(@, latency), ![p].i = @ + 1,
                                     ![p].invoked = @ + 1]
       \/ procs' = [procs EXCEPT ![p].pc = "failed", ![p].exitcode = Some(1),
                                 ![p].invoked = @ + 1]
    /\ UNCHANGED <<cpc, process_count, rcount, statement, k, overall, network, wait,
                   summary, agg, table, pctCalls, wcount, writers, mainVars, pctVars>>

\* the slot enumerate(bench) reaches at its step w
SlotOf(w) == w

\* lines 162-165: one step of the second loop: the w-th Latency Sample of
\* session.bench goes to slot w of the three Arrays of this process; an index
\* outside an Array raises IndexError and ends the process
WorkerWrite(p) ==
    /\ procs[p].pc = "running"
    /\ procs[p].i = rcount
    /\ procs[p].w < PyLen(procs[p].bench)
    /\ LET me == procs[p]
           slot == SlotOf(me.w)
           latency == me.bench[me.w]
       IN  IF slot < PyLen(overall[me.overall])
           THEN /\ overall' = [overall EXCEPT ![me.overall][slot] = latency.overall]
                /\ network' = [network EXCEPT ![me.network][slot] = latency.network]
                /\ wait' = [wait EXCEPT ![me.wait][slot] = latency.wait]
                /\ wcount' = [wcount EXCEPT !["overall"][me.overall][slot] = @ + 1,
                                            !["network"][me.network][slot] = @ + 1,
                                            !["wait"][me.wait][slot] = @ + 1]
                /\ writers' = writers \cup
                      {[proc |-> p, dim |-> "overall", region |-> me.overall, slot |-> slot],
                       [proc |-> p, dim |-> "network", region |-> me.network, slot |-> slot],
                       [proc |-> p, dim |-> "wait", region |-> me.wait, slot |-> slot]}
                /\ procs' = [procs EXCEPT ![p].w = @ + 1]
           ELSE /\ procs' = [procs EXCEPT ![p].pc = "failed", ![p].exitcode = Some(1)]
                /\ UNCHANGED <<overall, network, wait, wcount, writers>>
    /\ UNCHANGED <<cpc, process_count, rcount, statement, k,
                   summary, agg, table, pctCalls, mainVars, pctVars>>

\* run returns: the process terminates with exit code 0
WorkerExit(p) ==
    /\ procs[p].pc = "running"
    /\ procs[p].i = rcount
    /\ procs[p].w = PyLen(procs[p].bench)
    /\ procs' = [procs EXCEPT ![p].pc = "done", ![p].exitcode = Some(0)]
    /\ UNCHANGED <<cpc, process_count, rcount, statement, k, overall, network, wait,
                   summary, agg, table, pctCalls, wcount, writers, mainVars, pctVars>>

Worker ==
    \E p \in DOMAIN procs : WorkerInvoke(p) \/ WorkerWrite(p) \/ WorkerExit(p)

\* ------------------------------------------- specification: one run_all call
InitBatch ==
    /\ overall = EmptyList /\ network = EmptyList /\ wait = EmptyList
    /\ procs = EmptyList
    /\ wcount = [d \in Dims |-> EmptyList]
    /\ writers = {}
    /\ summary = NoSummary /\ agg = NoAggregate /\ table = NoTable
    /\ pctCalls = {}
    /\ k = 0

NoResult == [called |-> FALSE, raised |-> FALSE, n |-> 0, d |-> 1]

InitPct == pvalues = EmptyList /\ pnth = 0 /\ presult = NoResult

InitRunAll ==
    /\ argv = <<>> /\ args = <<>> /\ run_count = 0 /\ statements = <<>>
    /\ parallels = <<>> /\ mpc = "direct" /\ exit = None /\ out = <<>>
    /\ si = 0 /\ pj = 0 /\ calls = <<>>
    /\ cpc = "call"
    /\ process_count \in 0..MaxProcs
    /\ rcount \in 0..MaxRuns
    /\ statement = "RETURN 1"
    /\ InitBatch
    /\ InitPct

NextRunAll ==
    \/ Allocate
    \/ StartProcess
    \/ JoinProcess
    \/ Summarize
    \/ PrintBench
    \/ Return
    \/ Worker

SpecRunAll == InitRunAll /\ [][NextRunAll]_vars

\* --------------------------------------------------------------------- main
\* the command-line words of the model
HelpFlags == {"-h", "--help"}
TimesFlags == {"-x", "--times"}
ParallelsFlags == {"-p", "--parallels"}
Dashed == HelpFlags \cup TimesFlags \cup ParallelsFlags \cup {"-?", "--bogus"}
Plain == {"0", "1", "2", "2,1", "RETURN 1"}
Words == Dashed \cup Plain

\* arg.startswith("-")
StartsWithDash(arg) == arg \in Dashed

\* int(word): the integer, or ValueError
int(word) ==
    IF word = "0" THEN [raised |-> FALSE, value |-> 0]
    ELSE IF word = "1" THEN [raised |-> FALSE, value |-> 1]
    ELSE IF word = "2" THEN [raised |-> FALSE, value |-> 2]
    ELSE [raised |-> TRUE, value |-> 0]

\* list(map(int, word.split(","))): the integers in the order written, or ValueError
IntList(word) ==
    IF word = "2,1" THEN [raised |-> FALSE, value |-> <<2, 1>>]
    ELSE IF int(word).raised THEN [raised |-> TRUE, value |-> <<>>]
    ELSE [raised |-> FALSE, value |-> <<int(word).value>>]

\* line 189: list(2 ** n for n in range(int(ceil(log(16, 2)) + 1)))
RECURSIVE Log2Ceil(_)
Log2Ceil(n) == IF n <= 1 THEN 0 ELSE 1 + Log2Ceil((n + 1) \div 2)

RECURSIVE Pow2(_)
Pow2(n) == IF n = 0 THEN 1 ELSE 2 * Pow2(n - 1)

DefaultParallels == [n \in 1..(Log2Ceil(TopParallel) + 1) |-> Pow2(n - 1)]

\* lines 212-214: the six default statements
DefaultStatements ==
    <<"unwind(range(1, 0)) AS z RETURN z", "unwind(range(1, 1)) AS z RETURN z",
      "unwind(range(1, 10)) AS z RETURN z", "unwind(range(1, 100)) AS z RETURN z",
      "MATCH (a) WHERE id(a) = 0 RETURN a", "MATCH (a:Thing) WHERE a.foo = 'bar' RETURN a">>

\* an exception no handler catches: the interpreter prints the traceback and
\* the process ends with status 1
Uncaught(what) ==
    /\ out' = Append(out, what)
    /\ exit' = Some(1)
    /\ mpc' = "exited"

\* lines 193-195: -h / --help
ParseHelp ==
    /\ mpc = "parse" /\ args # <<>>
    /\ Head(args) \in HelpFlags
    /\ args' = Tail(args)
    /\ out' = Append(out, "USAGE")
    /\ exit' = Some(0)
    /\ mpc' = "exited"
    /\ UNCHANGED <<argv, run_count, statements, parallels, si, pj, calls, batchVars, pctVars>>

\* lines 196-197: -x / --times
ParseTimes ==
    /\ mpc = "parse" /\ args # <<>>
    /\ Head(args) \in TimesFlags
    /\ IF Tail(args) = <<>>
       THEN /\ Uncaught("Traceback: IndexError in args.pop")
            /\ args' = Tail(args)
            /\ UNCHANGED run_count
       ELSE /\ args' = Tail(Tail(args))
            /\ IF int(args[2]).raised
               THEN /\ Uncaught("Traceback: ValueError in int")
                    /\ UNCHANGED run_count
               ELSE /\ run_count' = int(args[2]).value
                    /\ UNCHANGED <<out, exit, mpc>>
    /\ UNCHANGED <<argv, statements, parallels, si, pj, calls, batchVars, pctVars>>

\* lines 198-199: -p / --parallels
ParseParallels ==
    /\ mpc = "parse" /\ args # <<>>
    /\ Head(args) \in ParallelsFlags
    /\ IF Tail(args) = <<>>
       THEN /\ Uncaught("Traceback: IndexError in args.pop")
            /\ args' = Tail(args)
            /\ UNCHANGED parallels
       ELSE /\ args' = Tail(Tail(args))
            /\ IF IntList(args[2]).raised
               THEN /\ Uncaught("Traceback: ValueError in int")
                    /\ UNCHANGED parallels
               ELSE /\ parallels' = IntList(args[2]).value
                    /\ UNCHANGED <<out, exit, mpc>>
    /\ UNCHANGED <<argv, run_count, statements, si, pj, calls, batchVars, pctVars>>

\* lines 200-202: any other word that starts with "-"
ParseUnknown_Ignore ==
    /\ mpc = "parse" /\ args # <<>>
    /\ StartsWithDash(Head(args))
    /\ Head(args) \notin HelpFlags \cup TimesFlags \cup ParallelsFlags
    /\ args' = Tail(args)
    /\ out' = Append(out, "Unknown option")
    /\ UNCHANGED <<exit, mpc>>
    /\ UNCHANGED <<argv, run_count, statements, parallels, si, pj, calls, batchVars, pctVars>>

ParseUnknown ==
    /\ mpc = "parse" /\ args # <<>>
    /\ StartsWithDash(Head(args))
    /\ Head(args) \notin HelpFlags \cup TimesFlags \cup ParallelsFlags
    /\ args' = Tail(args)
    /\ out' = Append(out, "Unknown option")
    /\ exit' = Some(1)
    /\ mpc' = "exited"
    /\ UNCHANGED <<argv, run_count, statements, parallels, si, pj, calls, batchVars, pctVars>>

\* lines 203-204: a statement
ParseStatement ==
    /\ mpc = "parse" /\ args # <<>>
    /\ ~StartsWithDash(Head(args))
    /\ args' = Tail(args)
    /\ statements' = Append(statements, Head(args))
    /\ UNCHANGED <<argv, run_count, parallels, mpc, exit, out, si, pj, calls, batchVars, pctVars>>

\* lines 205-214: the while loop ends; with no statement, the defaults
ParseEnd ==
    /\ mpc = "parse" /\ args = <<>>
    /\ IF statements = <<>>
       THEN /\ statements' = DefaultStatements
            /\ out' = Append(out, "No statements specified, using defaults")
       ELSE UNCHANGED <<statements, out>>
    /\ mpc' = "loop"
    /\ UNCHANGED <<argv, args, run_count, parallels, exit, si, pj, calls, batchVars, pctVars>>

\* line 216: the value the inner loop takes at its step j
ParallelsAt_Reversed(j) == parallels[Len(parallels) + 1 - j]
ParallelsAt(j) == parallels[j]

\* lines 215-217: the next GAP.run_all call of the two for loops
MainCall ==
    /\ mpc = "loop" /\ cpc \in {"idle", "returned"}
    /\ si <= Len(statements) /\ parallels # <<>>
    /\ statement' = statements[si]
    /\ process_count' = ParallelsAt(pj)
    /\ rcount' = run_count
    /\ calls' = Append(calls, [stmt |-> si, statement |-> statements[si],
                                process_count |-> ParallelsAt(pj)])
    /\ cpc' = "call"
    /\ pj' = IF pj < Len(parallels) THEN pj + 1 ELSE 1
    /\ si' = IF pj < Len(parallels) THEN si ELSE si + 1
    /\ UNCHANGED <<argv, args, run_count, statements, parallels, mpc, exit, out,
                   k, overall, network, wait, procs, summary, agg, table, pctCalls,
                   wcount, writers, pctVars>>

\* the for loops are exhausted: main returns and the process ends with status 0
MainExit ==
    /\ mpc = "loop" /\ cpc \in {"idle", "returned"}
    /\ si > Len(statements) \/ parallels = <<>>
    /\ mpc' = "exited"
    /\ exit' = Some(0)
    /\ UNCHANGED <<argv, args, run_count, statements, parallels, out, si, pj, calls,
                   batchVars, pctVars>>

\* ----------------------------------------------------- specification: main
ArgLists == UNION {[1..n -> Words] : n \in 0..MaxArgs}

\* lines 173-189: the banner is printed, the defaults are set
Init ==
    /\ argv \in ArgLists
    /\ args = argv
    /\ run_count = DefaultRunCount
    /\ statements = <<>>
    /\ parallels = DefaultParallels
    /\ mpc = "parse" /\ exit = None /\ out = <<"banner">>
    /\ si = 1 /\ pj = 1 /\ calls = <<>>
    /\ cpc = "idle" /\ process_count = 0 /\ rcount = 0 /\ statement = ""
    /\ InitBatch
    /\ InitPct

Next ==
    \/ ParseHelp
    \/ ParseTimes
    \/ ParseParallels
    \/ ParseUnknown
    \/ ParseStatement
    \/ ParseEnd
    \/ MainCall
    \/ MainExit
    \/ Allocate
    \/ StartProcess
    \/ JoinProcess
    \/ Summarize
    \/ PrintBench
    \/ Return
    \/ Worker

Spec == Init /\ [][Next]_vars

\* ----------------------------------------------- specification: percentile
SortedLists ==
    {l \in UNION {[0..(n - 1) -> 0..MaxValue] : n \in 1..MaxLen} : IsSorted(l)}

InitPercentile ==
    /\ argv = <<>> /\ args = <<>> /\ run_count = 0 /\ statements = <<>>
    /\ parallels = <<>> /\ mpc = "direct" /\ exit = None /\ out = <<>>
    /\ si = 0 /\ pj = 0 /\ calls = <<>>
    /\ cpc = "idle" /\ process_count = 0 /\ rcount = 0 /\ statement = ""
    /\ InitBatch
    /\ pvalues \in SortedLists
    /\ pnth \in 0..NthDen
    /\ presult = NoResult

\* percentile(pvalues, pnth / NthDen)
CallPercentile ==
    /\ ~presult.called
    /\ LET r == percentile(pvalues, pnth, NthDen)
       IN  presult' = [called |-> TRUE, raised |-> r.raised, n |-> r.n, d |-> r.d]
    /\ UNCHANGED <<pvalues, pnth, mainVars, batchVars>>

NextPercentile == CallPercentile

SpecPercentile == InitPercentile /\ [][NextPercentile]_vars

\* =================================================================== claims
Range(q) == {q[i] : i \in DOMAIN q}

AllProcs == DOMAIN procs

Failed(p) == procs[p].pc = "failed"

Done(p) == procs[p].pc = "done"

AfterJoin == cpc \in {"joined", "summarized", "printed", "raised", "returned"}

\* C1: once run_all has aggregated, each of the three sequences passed to
\* print_bench holds process_count * run_count samples and every process has
\* written every one of its run_count slots in each of them.
C1_AggregateComplete ==
    agg.passed =>
        /\ PyLen(agg.overall) = process_count * rcount
        /\ PyLen(agg.network) = process_count * rcount
        /\ PyLen(agg.wait) = process_count * rcount
        /\ \A p \in AllProcs : \A d \in Dims : \A j \in 0..(rcount - 1) :
              [proc |-> p, dim |-> d, region |-> p, slot |-> j] \in writers

\* C2: the join is a barrier: whenever run_all is past its join loop (elapsed
\* time, summary, flatten, sort, print_bench), every started process has
\* terminated, so none is running or writing a slot.
C2_JoinBarrier ==
    (AfterJoin \/ summary.printed \/ agg.passed \/ table.state # "none") =>
        \A p \in AllProcs : Terminated(p)

C2_Witness ==
    /\ cpc = "summarized"
    /\ process_count = 2
    /\ Done(0) /\ Failed(1)
    /\ procs[0].w = 2

\* C3: when a run(statement) of a process has raised, run_all prints neither
\* the throughput line nor a percentile table for that batch, and the process
\* makes no invocation beyond the one that raised.
C3_FailedBatchNotReported ==
    \A p \in AllProcs :
        Failed(p) =>
            /\ ~summary.printed
            /\ table.state # "printed"
            /\ procs[p].invoked = PyLen(procs[p].bench) + 1

\* C4: process i writes only slots of overall[i], network[i] and wait[i], every
\* written index lies in 0..run_count-1, every slot is written at most once,
\* and no slot is written by two processes.
C4_DisjointWrites ==
    /\ \A x \in writers :
          /\ x.region = x.proc
          /\ x.slot \in 0..(rcount - 1)
    /\ \A x, y \in writers :
          (x.dim = y.dim /\ x.region = y.region /\ x.slot = y.slot) => x.proc = y.proc
    /\ \A d \in Dims : \A r \in DOMAIN wcount[d] : \A j \in DOMAIN wcount[d][r] :
          wcount[d][r][j] <= 1

C4_Witness ==
    /\ process_count = 2 /\ rcount = 2
    /\ Cardinality(writers) = 12
    /\ cpc = "join"

\* C5: every run_all call of main has run_count >= 1, and every sequence
\* print_bench passes to percentile is non-empty, for every command line main
\* accepts.
C5_PercentileNonEmpty ==
    /\ cpc # "idle" => rcount >= 1
    /\ \A n \in pctCalls : n > 0

\* C6: a help flag (-h, --help or -?) that main reaches after statements only
\* makes it print the usage text and exit with status 0, and no run_all call
\* is made.
HelpWords == {"-h", "--help", "-?"}

HelpReached ==
    \E i \in DOMAIN argv :
        /\ argv[i] \in HelpWords
        /\ \A j \in 1..(i - 1) : argv[j] \in Plain

C6_HelpExitsZero ==
    HelpReached =>
        /\ calls = <<>>
        /\ mpc = "exited" => (exit = Some(0) /\ "USAGE" \in Range(out))

\* C7: an unknown flag, and -x/--times or -p/--parallels as the last argument,
\* are reported and end the process with status 1, with no run_all call made
\* and no process created before.
UnknownFlagSeen == "Unknown option" \in Range(out)

MissingValueSeen == "Traceback: IndexError in args.pop" \in Range(out)

LeadingUnknownFlag == argv # <<>> /\ argv[1] \in {"--bogus", "-?"}

C7_ArgumentErrorExits ==
    /\ (UnknownFlagSeen \/ MissingValueSeen) =>
          /\ mpc = "exited"
          /\ exit = Some(1)
          /\ calls = <<>>
          /\ procs = EmptyList
    /\ (LeadingUnknownFlag /\ args # argv) => UnknownFlagSeen

C7_Witness ==
    /\ MissingValueSeen
    /\ statements # <<>>
    /\ exit = Some(1)

C9_PartialSamplesKept ==
    \A p \in AllProcs :
        Failed(p) =>
            \A j \in 0..(rcount - 1) :
                IF j < PyLen(procs[p].bench)
                THEN /\ overall[p][j] = procs[p].bench[j].overall
                     /\ network[p][j] = procs[p].bench[j].network
                     /\ wait[p][j] = procs[p].bench[j].wait
                ELSE overall[p][j] = 0 /\ network[p][j] = 0 /\ wait[p][j] = 0

\* C9 amended: a process that completed has made run_count invocations and
\* slot j of its three Arrays holds the sample of invocation j, for every j;
\* a process whose invocation k raised has made no invocation after it and
\* has written nothing: all run_count slots of its Arrays are still 0.
C9_SamplesAfterRun ==
    \A p \in AllProcs :
        /\ Done(p) =>
              /\ procs[p].invoked = rcount
              /\ PyLen(procs[p].bench) = rcount
              /\ \A j \in 0..(rcount - 1) :
                    /\ overall[p][j] = procs[p].bench[j].overall
                    /\ network[p][j] = procs[p].bench[j].network
                    /\ wait[p][j] = procs[p].bench[j].wait
        /\ Failed(p) =>
              /\ procs[p].invoked = PyLen(procs[p].bench) + 1
              /\ procs[p].invoked <= rcount
              /\ \A j \in 0..(rcount - 1) :
                    overall[p][j] = 0 /\ network[p][j] = 0 /\ wait[p][j] = 0

C9_Witness ==
    \E p \in AllProcs :
        /\ Failed(p)
        /\ PyLen(procs[p].bench) = 1
        /\ rcount = 2
        /\ \E q \in AllProcs : Done(q)

\* C10 as stated: within one statement the run_all calls are made in
\* ascending order of parallelism.
C10_AscendingBatches ==
    \A i \in 1..(Len(calls) - 1) :
        calls[i].stmt = calls[i + 1].stmt =>
            calls[i].process_count <= calls[i + 1].process_count

\* C10 amended: the run_all calls are, statement by statement in the order
\* given, one per entry of parallels in the order the list gives them; and a
\* batch is called only after the previous one was rendered and all its
\* processes have terminated.
C10_BatchesInGivenOrder ==
    /\ \A i \in 1..Len(calls) :
          LET s == ((i - 1) \div Len(parallels)) + 1
              j == ((i - 1) % Len(parallels)) + 1
          IN  calls[i] = [stmt |-> s, statement |-> statements[s],
                          process_count |-> parallels[j]]
    /\ (mpc = "loop" /\ cpc \in {"call", "returned"}) =>
          \A p \in AllProcs : Terminated(p)
    /\ (mpc = "loop" /\ cpc = "call" /\ Len(calls) > 1) => table.state = "printed"
    /\ (mpc = "loop" /\ cpc = "returned") => table.state = "printed"

C10_Witness ==
    /\ parallels = <<2, 1>>
    /\ Len(calls) = 2
    /\ cpc = "returned"
    /\ \E p \in AllProcs : Done(p)

====
